---- MODULE Spec2Model ----
(***************************************************************************)
(* Model of qudag-napi/src/crypto.rs: the NAPI bindings for ML-KEM-768,    *)
(* the (stubbed) ML-DSA-65 operations and the BLAKE3 helpers.              *)
(*                                                                         *)
(* Every exported function is a small program: a call action places the    *)
(* arguments, one action per statement group moves pc through the body,    *)
(* and the last one stores the Result in ret.  The crates the bindings     *)
(* call (ml_kem, blake3, rand::OsRng) are not part of crypto.rs; they are  *)
(* modelled by what they compute, on a reduced parameter set (one          *)
(* coefficient per polynomial, one-byte seeds), with the byte lengths of   *)
(* the encodings kept as they are in ML-KEM-768.                           *)
(***************************************************************************)
EXTENDS Integers, Sequences, FiniteSets, TLC

VARIABLES
  pc,     \* position in the body of the running call, "idle" between calls
  op,     \* name of the running (or last completed) exported function
  args,   \* its arguments
  loc,    \* its local variables
  work,   \* what the running call has done so far: rng instantiated, draws
          \* taken from OsRng, inputs parsed, lattice operation run
  ret,    \* Result of the last completed call, None while a call runs
  hist    \* what the caller kept from earlier calls

vars == <<pc, op, args, loc, work, ret, hist>>

(***************************************************************************)
(* Bounds of the model.                                                    *)
(***************************************************************************)
\* OsRng outputs (the seeds d, z of key generation) range over 0..MaxSeed.
MaxSeed == 1
\* Messages and hashed data are the strings of at most MaxDataLen bytes over
\* the bytes 0 and 1 (plus the input of the unit test test_blake3).
MaxDataLen == 1

None == [none |-> TRUE]

Min(a, b) == IF a < b THEN a ELSE b

(***************************************************************************)
(* Byte buffers (napi Buffer, Vec<u8>).  A buffer of len bytes is kept as  *)
(* its length and its bytes up to the last non-zero one: the bytes after   *)
(* data are 0.  Buf normalises, so equal byte strings are equal values.    *)
(***************************************************************************)
RECURSIVE Strip(_)
Strip(s) ==
  IF s = <<>> THEN <<>>
  ELSE IF s[Len(s)] = 0 THEN Strip(SubSeq(s, 1, Len(s) - 1))
  ELSE s

Buf(n, bytes) == [len |-> n, data |-> Strip(SubSeq(bytes, 1, Min(n, Len(bytes))))]

\* b[i], 1-based, for 1 <= i <= b.len
ByteAt(b, i) == IF i <= Len(b.data) THEN b.data[i] ELSE 0

\* vec![0u8; n]
Zeros(n) == Buf(n, <<>>)

(***************************************************************************)
(* napi Result.                                                            *)
(***************************************************************************)
Ok(v) == [ok |-> TRUE, value |-> v]

\* Err(Error::from_reason(format!("Invalid <what> length: expected <e> bytes, got {}", n)))
ErrLength(what, e, n) ==
  [ok |-> FALSE, reason |-> "Invalid " \o what \o " length", expected |-> e, got |-> n]

\* Err(Error::from_reason("Invalid <what> format"))
ErrFormat(what) ==
  [ok |-> FALSE, reason |-> "Invalid " \o what \o " format", expected |-> 0, got |-> 0]

(***************************************************************************)
(* Byte lengths.                                                           *)
(***************************************************************************)
MlKemPkLen == 1184
MlKemSkLen == 2400
MlKemCtLen == 1088
SharedSecretLen == 32
MlDsaPkLen == 1952
MlDsaSkLen == 4032
MlDsaSigLen == 3309
Blake3OutLen == 32

(***************************************************************************)
(* The hash functions of the called crates, reduced to one byte of state.  *)
(* Mix absorbs the bytes of s in order, starting from salt.                *)
(***************************************************************************)
RECURSIVE MixFrom(_, _, _)
MixFrom(s, i, acc) ==
  IF i > Len(s) THEN acc ELSE MixFrom(s, i + 1, (acc * 167 + s[i] + 13) % 256)

Mix(s, salt) == MixFrom(s, 1, salt)

(***************************************************************************)
(* ml_kem::MlKem768 (FIPS 203), on the reduced parameter set n = 1, k = 1: *)
(* a polynomial is one coefficient of Z_q, a seed and a hash are one byte, *)
(* the message is one bit.  The algorithms are those of FIPS 203: K-PKE    *)
(* with compression (du = 10, dv = 4), and the Fujisaki-Okamoto transform  *)
(* with implicit rejection.                                                *)
(***************************************************************************)
Q == 3329
Pow2(d) == IF d = 0 THEN 1 ELSE IF d = 1 THEN 2 ELSE IF d = 4 THEN 16
           ELSE IF d = 10 THEN 1024 ELSE 4096

\* Compress_d(x) = round(2^d / q * x) mod 2^d
Compress(x, d) == ((2 * Pow2(d) * x + Q) \div (2 * Q)) % Pow2(d)
\* Decompress_d(y) = round(q / 2^d * y)
Decompress(y, d) == (2 * Q * y + Pow2(d)) \div (2 * Pow2(d))

\* ByteEncode_d of one coefficient, little endian, d <= 16: two bytes
ByteEncode(x) == <<x % 256, x \div 256>>
\* ByteDecode_d of one coefficient: the low d bits of the two bytes
ByteDecode(lo, hi, d) == (lo + 256 * hi) % Pow2(d)

\* H, J and the two halves of G
HashH(bytes) == Mix(bytes, 1)
HashJ(z, bytes) == Mix(<<z>> \o bytes, 2)
HashG_K(m, h) == Mix(<<m, h>>, 3)
HashG_r(m, h) == Mix(<<m, h>>, 4)

\* SampleNTT(rho): the public matrix entry
SampleNTT(rho) == (Mix(<<rho>>, 5) * 13 + 1) % Q
\* SamplePolyCBD_2(PRF(seed, nonce)): (b0 + b1) - (b2 + b3), in -2..2, mod q
SampleCBD(seed, nonce) ==
  LET x == Mix(<<seed, nonce>>, 6)
  IN  ((x % 2) + ((x \div 2) % 2) - ((x \div 4) % 2) - ((x \div 8) % 2)) % Q

\* K-PKE.KeyGen(d): the encryption key (t, rho) and the secret s
KPkeKeyGen(d) ==
  LET rho   == Mix(<<d>>, 7)
      sigma == Mix(<<d>>, 8)
      s     == SampleCBD(sigma, 0)
      e     == SampleCBD(sigma, 1)
  IN  [t |-> (SampleNTT(rho) * s + e) % Q, rho |-> rho, s |-> s]

\* K-PKE.Encrypt(ek, m, r): the ciphertext (c1, c2)
KPkeEncrypt(ek, m, r) ==
  LET y  == SampleCBD(r, 0)
      e1 == SampleCBD(r, 1)
      e2 == SampleCBD(r, 2)
      u  == (SampleNTT(ek.rho) * y + e1) % Q
      v  == (ek.t * y + e2 + Decompress(m, 1)) % Q
  IN  [c1 |-> Compress(u, 10), c2 |-> Compress(v, 4)]

\* K-PKE.Decrypt(s, c): the message bit
KPkeDecrypt(s, c) ==
  LET u == Decompress(c.c1, 10)
      v == Decompress(c.c2, 4)
  IN  Compress((v - s * u) % Q, 1)

\* EncodedSizeUser::as_bytes of an encapsulation key: ByteEncode_12(t) || rho
EkBytes(ek) == ByteEncode(ek.t) \o <<ek.rho>>
EkAsBytes(ek) == Buf(MlKemPkLen, EkBytes(ek))
\* EncapsulationKey::from(&[u8; 1184])
EkFromBytes(b) ==
  [t |-> ByteDecode(ByteAt(b, 1), ByteAt(b, 2), 12) % Q, rho |-> ByteAt(b, 3)]

\* as_bytes of a decapsulation key: ByteEncode_12(s) || ek || H(ek) || z
DkAsBytes(dk) ==
  Buf(MlKemSkLen, ByteEncode(dk.s) \o EkBytes(dk.ek) \o <<dk.h, dk.z>>)
\* DecapsulationKey::from(&[u8; 2400])
DkFromBytes(b) ==
  [s  |-> ByteDecode(ByteAt(b, 1), ByteAt(b, 2), 12) % Q,
   ek |-> [t |-> ByteDecode(ByteAt(b, 3), ByteAt(b, 4), 12) % Q, rho |-> ByteAt(b, 5)],
   h  |-> ByteAt(b, 6),
   z  |-> ByteAt(b, 7)]

\* a ciphertext's bytes: ByteEncode_10(c1) || ByteEncode_4(c2)
CtBytes(c) == ByteEncode(c.c1) \o <<c.c2>>
CtAsBytes(c) == Buf(MlKemCtLen, CtBytes(c))
\* the decoding decapsulation applies to the ciphertext bytes
CtDecode(b) ==
  [c1 |-> ByteDecode(ByteAt(b, 1), ByteAt(b, 2), 10), c2 |-> ByteAt(b, 3) % Pow2(4)]

\* a shared secret's 32 bytes
SsAsBytes(k) == Buf(SharedSecretLen, <<k>>)

\* MlKem768::generate(&mut rng) with the two seeds d and z it draws
MlKemGenerate(d, z) ==
  LET kp == KPkeKeyGen(d)
      ek == [t |-> kp.t, rho |-> kp.rho]
  IN  [ek |-> ek, dk |-> [s |-> kp.s, ek |-> ek, h |-> HashH(EkBytes(ek)), z |-> z]]

\* ek.encapsulate(&mut rng) with the message m it draws: (ciphertext, shared secret)
MlKemEncapsulate(ek, m) ==
  LET h == HashH(EkBytes(ek))
  IN  [ct |-> CtAsBytes(KPkeEncrypt(ek, m, HashG_r(m, h))), ss |-> SsAsBytes(HashG_K(m, h))]

\* dk.decapsulate(&ct): re-encrypts and, on a mismatch, returns J(z || c)
MlKemDecapsulate(dk, ct) ==
  LET m  == KPkeDecrypt(dk.s, CtDecode(ct))
      cc == CtAsBytes(KPkeEncrypt(dk.ek, m, HashG_r(m, dk.h)))
  IN  IF cc = ct THEN SsAsBytes(HashG_K(m, dk.h))
      ELSE SsAsBytes(HashJ(dk.z, ct.data))

(***************************************************************************)
(* blake3::hash and Hash::to_hex.  The digest is 32 bytes, each a mix of   *)
(* the input (its bytes and its length) and the byte's index.  A String    *)
(* is the sequence of its characters.                                      *)
(***************************************************************************)
Blake3Hash(b) == [i \in 1..Blake3OutLen |-> Mix(b.data \o <<b.len>>, i)]

HexDigits == <<"0", "1", "2", "3", "4", "5", "6", "7",
               "8", "9", "a", "b", "c", "d", "e", "f">>

\* Hash::to_hex: two lowercase hex digits per byte, high nibble first
ToHex(bytes) ==
  [i \in 1..(2 * Len(bytes)) |->
     LET b == bytes[(i + 1) \div 2]
     IN  IF i % 2 = 1 THEN HexDigits[(b \div 16) + 1] ELSE HexDigits[(b % 16) + 1]]

(***************************************************************************)
(* The structs returned across the binding.                                *)
(***************************************************************************)
KeyPair(pk, sk) == [public_key |-> pk, secret_key |-> sk]
EncapsulatedSecret(ct, ss) == [ciphertext |-> ct, shared_secret |-> ss]

(***************************************************************************)
(* What a call has done so far, and what the caller keeps between calls:   *)
(* the last KEM key pair, the last encapsulation with the key it was made  *)
(* for, the first decapsulation, the last two signature key pairs and the  *)
(* last signature with the message and key it was made from.  The caller   *)
(* holds the material of one service at a time, and drops the              *)
(* encapsulation and the decapsulation made with a key pair it replaces.   *)
(***************************************************************************)
NoWork == [rng |-> FALSE, draws |-> 0, parsed |-> {}, lattice |-> FALSE]

NoHist == [kp |-> None, enc |-> None, dec |-> None,
           sigkp |-> None, sigkpPrev |-> None, signed |-> None]

KeepKem(h) == [h EXCEPT !.sigkp = None, !.sigkpPrev = None, !.signed = None]
KeepSig(h) == [h EXCEPT !.kp = None, !.enc = None, !.dec = None]

\* another call has completed since the remembered decapsulation
Later(h) ==
  IF h.dec = None THEN h ELSE [h EXCEPT !.dec.later = TRUE]

(***************************************************************************)
(* The inputs a caller passes: buffers earlier calls returned, the same    *)
(* with one bit flipped, one byte cut off or one zero byte appended, and   *)
(* zero-filled buffers of the right and of a wrong length.                 *)
(***************************************************************************)
Seeds == 0..MaxSeed
MsgBits == 0..1

Tamper(b) ==
  LET b1 == ByteAt(b, 1)
      nb == IF b1 % 2 = 0 THEN b1 + 1 ELSE b1 - 1
  IN  Buf(b.len, <<nb>> \o (IF Len(b.data) <= 1 THEN <<>> ELSE SubSeq(b.data, 2, Len(b.data))))
Truncate(b) == Buf(b.len - 1, b.data)
Extend(b) == Buf(b.len + 1, b.data)
Variants(b) == {b, Tamper(b), Truncate(b), Extend(b)}

WrongLen == 100

DataInputs == UNION {{Buf(n, s) : s \in [1..n -> 0..1]} : n \in 0..MaxDataLen}
HashInputs == DataInputs \cup {Buf(5, <<1, 2, 3, 4, 5>>)}

PkInputs ==
  {Zeros(WrongLen), Zeros(MlKemPkLen)}
    \cup (IF hist.kp = None THEN {} ELSE Variants(hist.kp.public_key))
SkInputs ==
  {Zeros(WrongLen), Zeros(MlKemSkLen)}
    \cup (IF hist.kp = None THEN {} ELSE Variants(hist.kp.secret_key))
CtInputs ==
  {Zeros(WrongLen), Zeros(MlKemCtLen)}
    \cup (IF hist.enc = None THEN {} ELSE Variants(hist.enc.ct))
SigSkInputs ==
  {Zeros(WrongLen)}
    \cup (IF hist.sigkp = None THEN {Zeros(MlDsaSkLen)} ELSE Variants(hist.sigkp.secret_key))
SigPkInputs ==
  {Zeros(WrongLen)}
    \cup (IF hist.sigkp = None THEN {Zeros(MlDsaPkLen)} ELSE Variants(hist.sigkp.public_key))
SigInputs ==
  {Zeros(WrongLen)}
    \cup (IF hist.signed = None THEN {Zeros(MlDsaSigLen)} ELSE Variants(hist.signed.sig))

(***************************************************************************)
(* Init: no call has been made.                                            *)
(***************************************************************************)
Init ==
  /\ pc = "idle"
  /\ op = "none"
  /\ args = None
  /\ loc = None
  /\ work = NoWork
  /\ ret = None
  /\ hist = NoHist

\* the host calls exported function o with arguments a; the body starts at entry
Call(o, a, entry) ==
  /\ pc = "idle"
  /\ pc' = entry
  /\ op' = o
  /\ args' = a
  /\ loc' = None
  /\ work' = NoWork
  /\ ret' = None

\* the body returns r to the host
Return(r) ==
  /\ pc' = "idle"
  /\ ret' = r
  /\ loc' = None
  /\ UNCHANGED <<op, args, work>>

\* the body moves on
Goto(l) == pc' = l /\ UNCHANGED <<op, args, ret, hist>>

(***************************************************************************)
(* mlkem768_generate_keypair()                                             *)
(***************************************************************************)
Call_mlkem768_generate_keypair ==
  /\ Call("mlkem768_generate_keypair", None, "kg_rng")
  /\ hist' = KeepKem(hist)

\* let mut rng = OsRng;
kg_rng ==
  /\ pc = "kg_rng"
  /\ work' = [work EXCEPT !.rng = TRUE]
  /\ Goto("kg_generate")
  /\ UNCHANGED loc

\* let (ek, dk) = MlKem768::generate(&mut rng);
kg_generate ==
  /\ pc = "kg_generate"
  /\ \E d \in Seeds, z \in Seeds : loc' = MlKemGenerate(d, z)
  /\ work' = [work EXCEPT !.draws = @ + 2, !.lattice = TRUE]
  /\ Goto("kg_ret")

\* Ok(KeyPair { public_key: ek.as_bytes()..., secret_key: dk.as_bytes()... })
kg_ret ==
  /\ pc = "kg_ret"
  /\ Return(Ok(KeyPair(EkAsBytes(loc.ek), DkAsBytes(loc.dk))))
  /\ hist' = [hist EXCEPT !.kp = ret'.value, !.enc = None, !.dec = None]

(***************************************************************************)
(* mlkem768_encapsulate(public_key)                                        *)
(***************************************************************************)
Call_mlkem768_encapsulate ==
  /\ \E pk \in PkInputs :
       Call("mlkem768_encapsulate", [public_key |-> pk], "enc_check")
  /\ hist' = KeepKem(hist)

\* Faulty variant of enc_check: the test is `<` instead of `!=`, so a key that
\* is too long passes it.
enc_check_lt ==
  /\ pc = "enc_check"
  /\ IF args.public_key.len < MlKemPkLen
     THEN /\ Return(ErrLength("public key", MlKemPkLen, args.public_key.len))
          /\ hist' = Later(hist)
     ELSE /\ Goto("enc_rng")
          /\ UNCHANGED loc
  /\ UNCHANGED work

\* Faulty variant of enc_check: the length test is left out, try_into being
\* trusted to catch a wrong length later.
enc_check_skipped ==
  /\ pc = "enc_check"
  /\ Goto("enc_rng")
  /\ UNCHANGED <<loc, work>>

\* if public_key.len() != 1184 { return Err(...) }
enc_check ==
  /\ pc = "enc_check"
  /\ IF args.public_key.len # MlKemPkLen
     THEN /\ Return(ErrLength("public key", MlKemPkLen, args.public_key.len))
          /\ hist' = Later(hist)
     ELSE /\ Goto("enc_rng")
          /\ UNCHANGED loc
  /\ UNCHANGED work

\* let mut rng = OsRng;
enc_rng ==
  /\ pc = "enc_rng"
  /\ work' = [work EXCEPT !.rng = TRUE]
  /\ Goto("enc_parse")
  /\ UNCHANGED loc

\* let ek_array: [u8; 1184] = public_key.as_ref().try_into().map_err(...)?;
\* let ek = EncapsulationKey::from(&ek_array);
enc_parse ==
  /\ pc = "enc_parse"
  /\ IF args.public_key.len # MlKemPkLen
     THEN /\ Return(ErrFormat("public key"))
          /\ hist' = Later(hist)
          /\ UNCHANGED work
     ELSE /\ loc' = [ek |-> EkFromBytes(args.public_key)]
          /\ work' = [work EXCEPT !.parsed = @ \cup {"public_key"}]
          /\ Goto("enc_encaps")

\* let encapsulated = ek.encapsulate(&mut rng);
enc_encaps ==
  /\ pc = "enc_encaps"
  /\ \E m \in MsgBits : loc' = MlKemEncapsulate(loc.ek, m)
  /\ work' = [work EXCEPT !.draws = @ + 1, !.lattice = TRUE]
  /\ Goto("enc_ret")

\* Faulty variant of enc_ret: shared_secret is filled from ct.
enc_ret_ct_as_ss ==
  /\ pc = "enc_ret"
  /\ Return(Ok(EncapsulatedSecret(loc.ct, loc.ct)))
  /\ hist' = [Later(hist) EXCEPT
                !.enc = [pk |-> args.public_key, ct |-> ret'.value.ciphertext,
                         ss |-> ret'.value.shared_secret]]

\* Ok(EncapsulatedSecret { ciphertext: ct..., shared_secret: ss... })
\* (the caller keeps what it was given, with the key it passed)
enc_ret ==
  /\ pc = "enc_ret"
  /\ Return(Ok(EncapsulatedSecret(loc.ct, loc.ss)))
  /\ hist' = [Later(hist) EXCEPT
                !.enc = [pk |-> args.public_key, ct |-> ret'.value.ciphertext,
                         ss |-> ret'.value.shared_secret]]

(***************************************************************************)
(* mlkem768_decapsulate(ciphertext, secret_key)                            *)
(***************************************************************************)
Call_mlkem768_decapsulate ==
  /\ \E ct \in CtInputs, sk \in SkInputs :
       Call("mlkem768_decapsulate", [ciphertext |-> ct, secret_key |-> sk], "dec_check_ct")
  /\ hist' = KeepKem(hist)

\* if ciphertext.len() != 1088 { return Err(...) }
dec_check_ct ==
  /\ pc = "dec_check_ct"
  /\ IF args.ciphertext.len # MlKemCtLen
     THEN /\ Return(ErrLength("ciphertext", MlKemCtLen, args.ciphertext.len))
          /\ hist' = Later(hist)
     ELSE /\ Goto("dec_check_sk")
          /\ UNCHANGED loc
  /\ UNCHANGED work

\* if secret_key.len() != 2400 { return Err(...) }
dec_check_sk ==
  /\ pc = "dec_check_sk"
  /\ IF args.secret_key.len # MlKemSkLen
     THEN /\ Return(ErrLength("secret key", MlKemSkLen, args.secret_key.len))
          /\ hist' = Later(hist)
     ELSE /\ Goto("dec_parse_sk")
          /\ UNCHANGED loc
  /\ UNCHANGED work

\* let dk_array: [u8; 2400] = secret_key.as_ref().try_into().map_err(...)?;
\* let dk = DecapsulationKey::from(&dk_array);
dec_parse_sk ==
  /\ pc = "dec_parse_sk"
  /\ IF args.secret_key.len # MlKemSkLen
     THEN /\ Return(ErrFormat("secret key"))
          /\ hist' = Later(hist)
          /\ UNCHANGED work
     ELSE /\ loc' = [dk |-> DkFromBytes(args.secret_key)]
          /\ work' = [work EXCEPT !.parsed = @ \cup {"secret_key"}]
          /\ Goto("dec_parse_ct")

\* let ct_array: [u8; 1088] = ciphertext.as_ref().try_into().map_err(...)?;
\* let ct = Ciphertext::from(&ct_array);
dec_parse_ct ==
  /\ pc = "dec_parse_ct"
  /\ IF args.ciphertext.len # MlKemCtLen
     THEN /\ Return(ErrFormat("ciphertext"))
          /\ hist' = Later(hist)
          /\ UNCHANGED work
     ELSE /\ loc' = [dk |-> loc.dk, ct |-> args.ciphertext]
          /\ work' = [work EXCEPT !.parsed = @ \cup {"ciphertext"}]
          /\ Goto("dec_decaps")

\* Faulty variant of dec_decaps: the rejection value is derived from a fresh
\* draw of OsRng instead of the z stored in the key.
dec_decaps_fresh_z ==
  /\ pc = "dec_decaps"
  /\ \E r \in Seeds : loc' = [ss |-> MlKemDecapsulate([loc.dk EXCEPT !.z = r], loc.ct)]
  /\ work' = [work EXCEPT !.lattice = TRUE]
  /\ Goto("dec_ret")

\* let ss = dk.decapsulate(&ct);
dec_decaps ==
  /\ pc = "dec_decaps"
  /\ loc' = [ss |-> MlKemDecapsulate(loc.dk, loc.ct)]
  /\ work' = [work EXCEPT !.lattice = TRUE]
  /\ Goto("dec_ret")

\* Ok(ss.as_bytes().to_vec().into())
\* (the caller remembers the first decapsulation made with its key pair)
dec_ret ==
  /\ pc = "dec_ret"
  /\ Return(Ok(loc.ss))
  /\ hist' = IF hist.dec = None
             THEN [hist EXCEPT !.dec = [ct |-> args.ciphertext, sk |-> args.secret_key,
                                        ss |-> ret'.value, later |-> FALSE]]
             ELSE hist

(***************************************************************************)
(* The ML-DSA-65 stubs.                                                    *)
(***************************************************************************)
Call_mldsa65_generate_keypair ==
  /\ Call("mldsa65_generate_keypair", None, "sigkg_body")
  /\ hist' = KeepSig(hist)

\* Ok(KeyPair { public_key: vec![0u8; 1952].into(), secret_key: vec![0u8; 4032].into() })
mldsa65_generate_keypair == Ok(KeyPair(Zeros(MlDsaPkLen), Zeros(MlDsaSkLen)))

sigkg_body ==
  /\ pc = "sigkg_body"
  /\ Return(mldsa65_generate_keypair)
  /\ hist' = [hist EXCEPT !.sigkp = ret'.value, !.sigkpPrev = hist.sigkp]

Call_mldsa65_sign ==
  /\ \E m \in DataInputs, sk \in SigSkInputs :
       Call("mldsa65_sign", [message |-> m, secret_key |-> sk], "sign_body")
  /\ hist' = KeepSig(hist)

\* Faulty variant of mldsa65_sign: the signature size of the draft standard.
mldsa65_sign_draft_size(message, secret_key) == Ok(Zeros(3293))

\* Ok(vec![0u8; 3309].into())
mldsa65_sign(message, secret_key) == Ok(Zeros(MlDsaSigLen))

\* the caller keeps a signature it was given, none when the call failed
sign_body ==
  /\ pc = "sign_body"
  /\ Return(mldsa65_sign(args.message, args.secret_key))
  /\ hist' = IF ret'.ok
             THEN [hist EXCEPT !.signed = [message |-> args.message,
                                           sk |-> args.secret_key, sig |-> ret'.value]]
             ELSE hist

Call_mldsa65_verify ==
  /\ \E m \in DataInputs, sig \in SigInputs, pk \in SigPkInputs :
       Call("mldsa65_verify", [message |-> m, signature |-> sig, public_key |-> pk],
            "verify_body")
  /\ hist' = KeepSig(hist)

\* Faulty variant of mldsa65_verify: an empty message is refused.
mldsa65_verify_nonempty(message, signature, public_key) == Ok(message.len > 0)

\* Ok(true)
mldsa65_verify(message, signature, public_key) == Ok(TRUE)

verify_body ==
  /\ pc = "verify_body"
  /\ Return(mldsa65_verify(args.message, args.signature, args.public_key))
  /\ UNCHANGED hist

(***************************************************************************)
(* The BLAKE3 helpers.                                                     *)
(***************************************************************************)
Call_blake3_hash ==
  /\ \E d \in HashInputs : Call("blake3_hash", [data |-> d], "hash_body")
  /\ hist' = NoHist

\* let hash = blake3::hash(data.as_ref()); Ok(hash.as_bytes().to_vec().into())
blake3_hash(data) == Ok(Buf(Blake3OutLen, Blake3Hash(data)))

hash_body ==
  /\ pc = "hash_body"
  /\ Return(blake3_hash(args.data))
  /\ UNCHANGED hist

Call_blake3_hash_hex ==
  /\ \E d \in HashInputs : Call("blake3_hash_hex", [data |-> d], "hex_body")
  /\ hist' = NoHist

\* let hash = blake3::hash(data.as_ref()); Ok(hash.to_hex().to_string())
blake3_hash_hex(data) == Ok(ToHex(Blake3Hash(data)))

hex_body ==
  /\ pc = "hex_body"
  /\ Return(blake3_hash_hex(args.data))
  /\ UNCHANGED hist

Call_quantum_fingerprint ==
  /\ \E d \in HashInputs : Call("quantum_fingerprint", [data |-> d], "qf_body")
  /\ hist' = NoHist

\* Faulty variant of quantum_fingerprint: the prefix lacks its colon.
quantum_fingerprint_no_colon(data) == Ok(<<"q", "f">> \o ToHex(Blake3Hash(data)))

\* let hash = blake3::hash(data.as_ref()); Ok(format!("qf:{}", hash.to_hex()))
quantum_fingerprint(data) == Ok(<<"q", "f", ":">> \o ToHex(Blake3Hash(data)))

qf_body ==
  /\ pc = "qf_body"
  /\ Return(quantum_fingerprint(args.data))
  /\ UNCHANGED hist

Next ==
  \/ Call_mlkem768_generate_keypair \/ kg_rng \/ kg_generate \/ kg_ret
  \/ Call_mlkem768_encapsulate \/ enc_check \/ enc_rng \/ enc_parse
  \/ enc_encaps \/ enc_ret
  \/ Call_mlkem768_decapsulate \/ dec_check_ct \/ dec_check_sk
  \/ dec_parse_sk \/ dec_parse_ct \/ dec_decaps \/ dec_ret
  \/ Call_mldsa65_generate_keypair \/ sigkg_body
  \/ Call_mldsa65_sign \/ sign_body
  \/ Call_mldsa65_verify \/ verify_body
  \/ Call_blake3_hash \/ hash_body
  \/ Call_blake3_hash_hex \/ hex_body
  \/ Call_quantum_fingerprint \/ qf_body

Spec == Init /\ [][Next]_vars

(***************************************************************************)
(* Properties.  Done(o): the last call, of o, has returned; args and ret   *)
(* are its arguments and its Result, work what it did.                     *)
(***************************************************************************)
Done(o) == pc = "idle" /\ op = o

\* r is the error that reports a buffer of n bytes where e were required
InvalidInputLength(r, what, e, n) ==
  /\ ~r.ok
  /\ r.reason = "Invalid " \o what \o " length"
  /\ r.expected = e
  /\ r.got = n

\* C1: mlkem768_encapsulate with a public key of a length other than 1184, and
\* mlkem768_decapsulate with a ciphertext of a length other than 1088 or a
\* secret key of a length other than 2400, return the length error of the
\* offending buffer and no ciphertext or shared secret.
C1_KemLengthRejection ==
  /\ (Done("mlkem768_encapsulate") /\ args.public_key.len # 1184)
       => InvalidInputLength(ret, "public key", 1184, args.public_key.len)
  /\ (Done("mlkem768_decapsulate") /\ args.ciphertext.len # 1088)
       => InvalidInputLength(ret, "ciphertext", 1088, args.ciphertext.len)
  /\ (Done("mlkem768_decapsulate") /\ args.ciphertext.len = 1088
        /\ args.secret_key.len # 2400)
       => InvalidInputLength(ret, "secret key", 2400, args.secret_key.len)

\* C1 happens: a generated public key with one zero byte appended was refused.
C1_Witness ==
  /\ Done("mlkem768_encapsulate")
  /\ hist.kp # None
  /\ args.public_key = Extend(hist.kp.public_key)
  /\ ~ret.ok

\* C2: mldsa65_sign with a secret key of a length other than 4032, and
\* mldsa65_verify with a signature of a length other than 3309 or a public key
\* of a length other than 1952, fail.
C2_SigLengthRejection ==
  /\ (Done("mldsa65_sign") /\ args.secret_key.len # 4032) => ~ret.ok
  /\ (Done("mldsa65_verify")
        /\ (args.signature.len # 3309 \/ args.public_key.len # 1952)) => ~ret.ok

\* the last signature was made with the secret key of the caller's key pair
SignedWithKeyPair ==
  /\ hist.sigkp # None
  /\ hist.signed # None
  /\ hist.signed.sk = hist.sigkp.secret_key

\* C3: mldsa65_verify returns false when, for a signature made by mldsa65_sign
\* with the key pair's secret key, the message, the signature or the public key
\* it is given differs from the signed message, the signature made or the key
\* pair's public key (the lengths being right).
C3_ForgeryRejection ==
  (/\ Done("mldsa65_verify")
   /\ SignedWithKeyPair
   /\ args.signature.len = 3309
   /\ args.public_key.len = 1952
   /\ \/ args.message # hist.signed.message
      \/ args.signature # hist.signed.sig
      \/ args.public_key # hist.sigkp.public_key)
    => ret = Ok(FALSE)

\* C4: mldsa65_verify(message, mldsa65_sign(message, sk), pk) returns true for
\* the key pair (pk, sk) of mldsa65_generate_keypair and every message.
C4_SigRoundTrip ==
  (/\ Done("mldsa65_verify")
   /\ SignedWithKeyPair
   /\ args.message = hist.signed.message
   /\ args.signature = hist.signed.sig
   /\ args.public_key = hist.sigkp.public_key)
    => ret = Ok(TRUE)

\* C4 happens: the signature of the empty message was verified.
C4_Witness ==
  /\ Done("mldsa65_verify")
  /\ SignedWithKeyPair
  /\ args.message = Buf(0, <<>>)
  /\ args.message = hist.signed.message
  /\ args.signature = hist.signed.sig
  /\ args.public_key = hist.sigkp.public_key
  /\ ret = Ok(TRUE)

\* the call that returned decapsulated the caller's encapsulation, which was
\* made for the public key of the caller's key pair, with its secret key
DecapsulatedOwn ==
  /\ Done("mlkem768_decapsulate")
  /\ hist.kp # None
  /\ hist.enc # None
  /\ hist.enc.pk = hist.kp.public_key
  /\ args.ciphertext = hist.enc.ct
  /\ args.secret_key = hist.kp.secret_key

\* C5: for a key pair of mlkem768_generate_keypair and the (ciphertext,
\* shared_secret) of one mlkem768_encapsulate(pk), mlkem768_decapsulate(
\* ciphertext, sk) succeeds and returns that shared_secret.
C5_KemRoundTrip == DecapsulatedOwn => ret = Ok(hist.enc.ss)

\* C5 happens: such a decapsulation returned a 32-byte secret.
C5_Witness == DecapsulatedOwn /\ ret.ok /\ ret.value.len = 32

\* C6: two calls of mldsa65_generate_keypair return different public keys and
\* different secret keys.
C6_SigKeygenFresh ==
  (hist.sigkp # None /\ hist.sigkpPrev # None)
    => /\ hist.sigkp.public_key # hist.sigkpPrev.public_key
       /\ hist.sigkp.secret_key # hist.sigkpPrev.secret_key

\* C7: every successful call returns buffers of the contract lengths: KEM
\* keygen 1184 and 2400, encapsulate 1088 and 32, decapsulate 32, signature
\* keygen 1952 and 4032, sign 3309 for any message, blake3_hash 32.
C7_FixedOutputLengths ==
  (pc = "idle" /\ ret # None /\ ret.ok) =>
    /\ op = "mlkem768_generate_keypair"
         => ret.value.public_key.len = 1184 /\ ret.value.secret_key.len = 2400
    /\ op = "mlkem768_encapsulate"
         => ret.value.ciphertext.len = 1088 /\ ret.value.shared_secret.len = 32
    /\ op = "mlkem768_decapsulate" => ret.value.len = 32
    /\ op = "mldsa65_generate_keypair"
         => ret.value.public_key.len = 1952 /\ ret.value.secret_key.len = 4032
    /\ op = "mldsa65_sign" => ret.value.len = 3309
    /\ op = "blake3_hash" => ret.value.len = 32

\* C7 happens: the empty message was signed.
C7_Witness ==
  /\ Done("mldsa65_sign")
  /\ args.message.len = 0
  /\ ret.ok
  /\ ret.value.len = 3309

LowerHex == {"0", "1", "2", "3", "4", "5", "6", "7",
             "8", "9", "a", "b", "c", "d", "e", "f"}

\* the value of a lowercase hex digit
HexValue(c) ==
  CASE c = "0" -> 0 [] c = "1" -> 1 [] c = "2" -> 2 [] c = "3" -> 3
    [] c = "4" -> 4 [] c = "5" -> 5 [] c = "6" -> 6 [] c = "7" -> 7
    [] c = "8" -> 8 [] c = "9" -> 9 [] c = "a" -> 10 [] c = "b" -> 11
    [] c = "c" -> 12 [] c = "d" -> 13 [] c = "e" -> 14 [] c = "f" -> 15

\* C8: quantum_fingerprint(data) is "qf:" followed by blake3_hash_hex(data): 67
\* characters, of which the last 64 are the lowercase hex digits of the bytes
\* of blake3_hash(data).
C8_FingerprintFormat ==
  Done("quantum_fingerprint") =>
    /\ ret.ok
    /\ Len(ret.value) = 67
    /\ SubSeq(ret.value, 1, 3) = <<"q", "f", ":">>
    /\ Ok(SubSeq(ret.value, 4, 67)) = blake3_hash_hex(args.data)
    /\ \A i \in 1..32 :
         /\ ret.value[2 * i + 2] \in LowerHex
         /\ ret.value[2 * i + 3] \in LowerHex
         /\ 16 * HexValue(ret.value[2 * i + 2]) + HexValue(ret.value[2 * i + 3])
              = ByteAt(blake3_hash(args.data).value, i)

\* C8 happens: the empty input was fingerprinted.
C8_Witness ==
  /\ Done("quantum_fingerprint")
  /\ args.data.len = 0
  /\ ret.ok
  /\ Len(ret.value) = 67

\* the call that returned decapsulated buffers of the right lengths
DecapsulatedRightLengths ==
  /\ Done("mlkem768_decapsulate")
  /\ args.ciphertext.len = 1088
  /\ args.secret_key.len = 2400

\* the call that returned repeated the remembered decapsulation
RepeatedDecapsulation ==
  /\ hist.dec # None
  /\ hist.dec.ct = args.ciphertext
  /\ hist.dec.sk = args.secret_key

\* C9: mlkem768_decapsulate with a ciphertext of 1088 bytes and a secret key of
\* 2400 bytes, whatever their content, returns no error but a 32-byte secret,
\* and the same one as an earlier call with the same inputs.
C9_ImplicitRejection ==
  DecapsulatedRightLengths =>
    /\ ret.ok
    /\ ret.value.len = 32
    /\ RepeatedDecapsulation => ret.value = hist.dec.ss

\* C9 happens: a decapsulation with a secret key that does not match (one bit
\* flipped) was repeated after another call.
C9_Witness ==
  /\ DecapsulatedRightLengths
  /\ RepeatedDecapsulation
  /\ hist.dec.later
  /\ hist.kp # None
  /\ args.secret_key = Tamper(hist.kp.secret_key)
  /\ ret.ok

\* the operations that take a buffer of a fixed size, and whether the buffers
\* of the running (or last) call have theirs
LengthsRight ==
  CASE op = "mlkem768_encapsulate" -> args.public_key.len = 1184
    [] op = "mlkem768_decapsulate" ->
         args.ciphertext.len = 1088 /\ args.secret_key.len = 2400
    [] op = "mldsa65_sign" -> args.secret_key.len = 4032
    [] op = "mldsa65_verify" ->
         args.signature.len = 3309 /\ args.public_key.len = 1952
    [] OTHER -> TRUE

====
